---- MODULE Spec2Model ----
(***************************************************************************)
(* The recipe API of app/recipe/views.py: the tag, ingredient and recipe   *)
(* viewsets over the database tables, one action per HTTP request.  The    *)
(* last request and its response are kept in req and resp.                 *)
(***************************************************************************)
EXTENDS Integers, Sequences, FiniteSets, TLC

\* ------------------------------------------------------------------ bounds
\* Rows of core_tag and core_ingredient together, and rows of core_recipe
\* ever inserted.
MaxAttributes == 1
MaxRecipes == 1
\* Rows of core_tag and core_ingredient together, and ids of core_recipe, in
\* the stored data of the list requests.
MaxStored == 2

\* ------------------------------------------------------------- value sets
\* The users the test fixtures create (create_user), and the request user
\* of a request that carries no valid token.
Users == {"u1", "u2"}
Anon == "anon"
\* The user keyword a save() receives when the view passes none.
NoUser == "nouser"

\* Names a tag or ingredient payload may carry; "" is the empty name.
Names == {"a", "b"}
PayloadNames == Names \cup {""}
NameRank(n) == IF n = "a" THEN 1 ELSE 2

\* Scalar values of a recipe: the defaults of the create_recipe fixture and
\* the values a payload carries.
DefaultTitle == "sample title"
DefaultTime == 10
DefaultPrice == 10
PayloadTitle == "Morgh va Berenj"
PayloadTime == 60
PayloadPrice == 20
NoImage == ""

ScalarFields == {"title", "time_minutes", "price"}
RecipeFields == ScalarFields \cup {"tags", "ingredients"}

VARIABLES
    tags,          \* core_tag: sequence of [user, name], id = index
    ingredients,   \* core_ingredient: sequence of [user, name], id = index
    recipes,       \* core_recipe: id -> [user, title, time_minutes, price, image, tags, ingredients]
    nextRecipeId,  \* the next primary key of core_recipe
    users,         \* core_user: sequence of [email, password, name], id = index
    tokens,        \* authtoken_token: the ids of the users that hold a token
    req,           \* the last request
    resp           \* its response

vars == <<tags, ingredients, recipes, nextRecipeId, users, tokens, req, resp>>
db == <<tags, ingredients, recipes, nextRecipeId>>
userDb == <<users, tokens>>

\* ---------------------------------------------------------------- helpers
RECURSIVE SortedSeq(_)
\* The ascending sequence of a finite set of integers.
SortedSeq(S) ==
    IF S = {} THEN <<>>
    ELSE LET m == CHOOSE x \in S : \A y \in S : x <= y
         IN <<m>> \o SortedSeq(S \ {m})

Range(s) == {s[i] : i \in DOMAIN s}

\* All orderings of the ids in S (sequences without repetition).
Orderings(S) ==
    {s \in [1..Cardinality(S) -> S] : \A i, j \in DOMAIN s : i # j => s[i] # s[j]}

Table(kind) == IF kind = "tags" THEN tags ELSE ingredients
AttrKinds == {"tags", "ingredients"}

\* ----------------------------------------------------------------- routes
\* The actions each viewset provides; the router makes one route per action.
AttributeActions == {"list", "create"}
RecipeActions == {"list", "create", "retrieve", "update", "partial_update", "destroy"}
Actions(endpoint) == IF endpoint = "recipes" THEN RecipeActions ELSE AttributeActions

\* authentication_classes / permission_classes: TokenAuthentication with
\* IsAuthenticated lets a request through only with a user behind its token.
IsAuthenticated(user) == user \in Users

\* ------------------------------------------------------ requests, responses
EmptyPayload ==
    [present |-> {}, name |-> "", title |-> "", time_minutes |-> 0, price |-> 0,
     tags |-> {}, ingredients |-> {}, image |-> ""]
NoParams == [assigned_only |-> FALSE, tags |-> {}, ingredients |-> {},
             filter |-> {}]

Request(user, endpoint, action, id, data, params) ==
    [user |-> user, endpoint |-> endpoint, action |-> action, id |-> id,
     data |-> data, params |-> params]
Response(status, data) == [status |-> status, data |-> data]

HTTP_200_OK == 200
HTTP_201_CREATED == 201
HTTP_204_NO_CONTENT == 204
HTTP_400_BAD_REQUEST == 400
HTTP_401_UNAUTHORIZED == 401
HTTP_404_NOT_FOUND == 404
HTTP_500_INTERNAL_SERVER_ERROR == 500

\* No request is being answered.
NoRequest == Request(Anon, "none", "none", 0, EmptyPayload, NoParams)
NoResponse == Response(0, <<>>)
Idle == req = NoRequest

Init ==
    /\ tags = <<>>
    /\ ingredients = <<>>
    /\ recipes = <<>>
    /\ nextRecipeId = 1
    /\ users = <<>>
    /\ tokens = {}
    /\ req = NoRequest
    /\ resp = NoResponse

\* The client has its response; the next request starts from the tables as
\* they are (each request runs to completion on its own).
Done ==
    /\ ~Idle
    /\ req' = NoRequest
    /\ resp' = NoResponse
    /\ UNCHANGED <<db, userDb>>

\* ------------------------------------------------- tag / ingredient viewsets
\* get_queryset without order_by.
BaseRecipeAttributeViewSet_get_queryset_unordered(objs, user) ==
    Orderings({i \in DOMAIN objs : objs[i].user = user})

\* BaseRecipeAttributeViewSet.get_queryset:
\*   self.queryset.filter(user=self.request.user).order_by('name')
\* The query parameters of the request are not read.  Rows of equal name come
\* in an order the database chooses, so the result is any of the orderings.
BaseRecipeAttributeViewSet_get_queryset(objs, user) ==
    LET ids == {i \in DOMAIN objs : objs[i].user = user}
    IN {s \in Orderings(ids) :
          \A i, j \in DOMAIN s :
             i < j => NameRank(objs[s[i]].name) <= NameRank(objs[s[j]].name)}

\* perform_create that saves without the request's user.
BaseRecipeAttributeViewSet_perform_create_nouser(objs, user, name) ==
    Append(objs, [user |-> NoUser, name |-> name])

\* BaseRecipeAttributeViewSet.perform_create: serializer.save(user=self.request.user)
BaseRecipeAttributeViewSet_perform_create(objs, user, name) ==
    Append(objs, [user |-> user, name |-> name])

\* TagSerializer / IngredientSerializer: the fields id and name; a blank name
\* is not valid.
AttributeSerializer(objs, id) == [id |-> id, name |-> objs[id].name]
AttributeSerializer_is_valid(name) == name # ""

\* GET /recipe/tags, GET /recipe/ingredients (ListModelMixin.list)
AttrList(kind, user, assigned_only) ==
    /\ Idle
    /\ UNCHANGED userDb
    /\ req' = Request(user, kind, "list", 0, EmptyPayload,
                      [NoParams EXCEPT !.assigned_only = assigned_only])
    /\ IF ~IsAuthenticated(user)
       THEN resp' = Response(HTTP_401_UNAUTHORIZED, <<>>)
       ELSE \E qs \in BaseRecipeAttributeViewSet_get_queryset(Table(kind), user) :
               resp' = Response(HTTP_200_OK,
                          [i \in DOMAIN qs |-> AttributeSerializer(Table(kind), qs[i])])
    /\ UNCHANGED db

\* POST /recipe/tags, POST /recipe/ingredients (CreateModelMixin.create)
AttrCreate(kind, user, name) ==
    /\ Idle
    /\ UNCHANGED userDb
    /\ (IsAuthenticated(user) /\ AttributeSerializer_is_valid(name))
          => Len(tags) + Len(ingredients) < MaxAttributes
    /\ req' = Request(user, kind, "create", 0, [EmptyPayload EXCEPT !.name = name],
                      NoParams)
    /\ IF ~IsAuthenticated(user)
       THEN /\ resp' = Response(HTTP_401_UNAUTHORIZED, <<>>)
            /\ UNCHANGED db
       ELSE IF ~AttributeSerializer_is_valid(name)
       THEN /\ resp' = Response(HTTP_400_BAD_REQUEST, <<>>)
            /\ UNCHANGED db
       ELSE LET objs == BaseRecipeAttributeViewSet_perform_create(Table(kind), user, name)
            IN /\ tags' = IF kind = "tags" THEN objs ELSE tags
               /\ ingredients' = IF kind = "ingredients" THEN objs ELSE ingredients
               /\ resp' = Response(HTTP_201_CREATED,
                                   <<AttributeSerializer(objs, Len(objs))>>)
               /\ UNCHANGED <<recipes, nextRecipeId>>

\* GET, PUT, PATCH and DELETE /recipe/tags/{id}, /recipe/ingredients/{id}:
\* the attribute viewsets have the list and create mixins only, so the router
\* has no detail route.
DetailActions == {"retrieve", "update", "partial_update", "destroy"}
AttrDetail(kind, user, id, action) ==
    /\ Idle
    /\ UNCHANGED userDb
    /\ action \in DetailActions \ Actions(kind)
    /\ req' = Request(user, kind, action, id, EmptyPayload, NoParams)
    /\ resp' = Response(HTTP_404_NOT_FOUND, <<>>)
    /\ UNCHANGED db

\* ------------------------------------------------------------ recipe viewset
RecipeIds == 1..MaxRecipes

\* get_queryset without the filter on the user.
RecipeViewSet_get_queryset_all(user) == SortedSeq(DOMAIN recipes)

\* RecipeViewSet.get_queryset:
\*   Recipe.objects.filter(user=self.request.user).order_by('id')
\* The query parameters of the request are not read.
RecipeViewSet_get_queryset(user) ==
    SortedSeq({id \in DOMAIN recipes : recipes[id].user = user})

\* RecipeViewSet.get_serializer_class
RecipeViewSet_get_serializer_class(action) ==
    IF action = "retrieve" THEN "RecipeDetailSerializer" ELSE "RecipeSerializer"

\* RecipeViewSet defines no perform_create: CreateModelMixin's serializer.save()
\* runs, which passes no user.
RecipeViewSet_perform_create(user) == NoUser

\* GenericAPIView.get_object over RecipeViewSet.get_queryset
RecipeViewSet_get_object(user, id) == id \in Range(RecipeViewSet_get_queryset(user))

\* RecipeSerializer: tags and ingredients by primary key.
RecipeSerializer(id, r) ==
    [id |-> id, title |-> r.title, time_minutes |-> r.time_minutes,
     price |-> r.price, tags |-> r.tags, ingredients |-> r.ingredients]
\* RecipeDetailSerializer: tags and ingredients as nested objects.
RecipeDetailSerializer(id, r) ==
    [id |-> id, title |-> r.title, time_minutes |-> r.time_minutes,
     price |-> r.price,
     tags |-> {AttributeSerializer(tags, t) : t \in r.tags},
     ingredients |-> {AttributeSerializer(ingredients, i) : i \in r.ingredients}]
Serialize(class, id, r) ==
    IF class = "RecipeDetailSerializer" THEN RecipeDetailSerializer(id, r)
    ELSE RecipeSerializer(id, r)

\* RecipeSerializer.is_valid: the scalar fields are required unless the update
\* is partial; every listed tag and ingredient id must be an existing row.
RecipeSerializer_is_valid(data, partial) ==
    /\ partial \/ ScalarFields \subseteq data.present
    /\ data.tags \subseteq DOMAIN tags
    /\ data.ingredients \subseteq DOMAIN ingredients

\* The fields of validated_data: a partial update carries the fields of the
\* payload; otherwise a form payload without tags or ingredients reads as
\* the empty list (test_full_update_recipe).
RecipeSerializer_validated_fields(data, partial) ==
    IF partial THEN data.present ELSE RecipeFields

\* ModelSerializer.update: setattr for each validated field, set() for each
\* many-to-many field.
RecipeSerializer_update(r, data, partial) ==
    LET f == RecipeSerializer_validated_fields(data, partial)
    IN [r EXCEPT !.title = IF "title" \in f THEN data.title ELSE @,
                 !.time_minutes = IF "time_minutes" \in f THEN data.time_minutes ELSE @,
                 !.price = IF "price" \in f THEN data.price ELSE @,
                 !.tags = IF "tags" \in f THEN data.tags ELSE @,
                 !.ingredients = IF "ingredients" \in f THEN data.ingredients ELSE @]

\* Recipe(...).save(): the user column is required.
Recipe_create(user, data) ==
    [user |-> user, title |-> data.title, time_minutes |-> data.time_minutes,
     price |-> data.price, image |-> NoImage, tags |-> data.tags,
     ingredients |-> data.ingredients]

\* A payload's tags or ingredients field: absent, or a list of ids.
ListOptions(ids) ==
    {[given |-> FALSE, v |-> {}]} \cup {[given |-> TRUE, v |-> X] : X \in SUBSET ids}

\* The payloads of a recipe request with the scalar fields S and lists over
\* the ids T and I; an absent field has its blank value.
Payload(S, tg, ig) ==
    [present |-> S \cup (IF tg.given THEN {"tags"} ELSE {})
                   \cup (IF ig.given THEN {"ingredients"} ELSE {}),
     name |-> "",
     title |-> IF "title" \in S THEN PayloadTitle ELSE "",
     time_minutes |-> IF "time_minutes" \in S THEN PayloadTime ELSE 0,
     price |-> IF "price" \in S THEN PayloadPrice ELSE 0,
     tags |-> tg.v, ingredients |-> ig.v, image |-> ""]
\* A PATCH payload carries any of price, tags and ingredients (as in
\* test_partial_update_recipe); a PUT or POST payload all scalar fields.
PatchScalarFields == {"price"}
PartialPayloads(T, I) ==
    {Payload(S, tg, ig) : S \in SUBSET PatchScalarFields,
                          tg \in ListOptions(T), ig \in ListOptions(I)}
FullPayloads(T, I) ==
    {Payload(ScalarFields, tg, ig) : tg \in ListOptions(T), ig \in ListOptions(I)}
\* Payloads that do not validate: a required field missing, an id of no row.
MissingFieldPayload == Payload({"title"}, [given |-> FALSE, v |-> {}],
                               [given |-> FALSE, v |-> {}])
UnknownIdPayload ==
    Payload(ScalarFields, [given |-> TRUE, v |-> {Len(tags) + 1}],
            [given |-> FALSE, v |-> {}])

\* The filters of a recipe list request: none, tags=..., or ingredients=...
RecipeListParams ==
    {NoParams}
    \cup {[NoParams EXCEPT !.filter = {"tags"}, !.tags = T] :
             T \in SUBSET (DOMAIN tags) \ {{}}}
    \cup {[NoParams EXCEPT !.filter = {"ingredients"}, !.ingredients = I] :
             I \in SUBSET (DOMAIN ingredients) \ {{}}}

\* create_recipe(user) of the tests: Recipe.objects.create with the defaults.
create_recipe(user) ==
    /\ Idle
    /\ UNCHANGED userDb
    /\ nextRecipeId <= MaxRecipes
    /\ recipes' = recipes @@ (nextRecipeId :>
                     [user |-> user, title |-> DefaultTitle,
                      time_minutes |-> DefaultTime, price |-> DefaultPrice,
                      image |-> NoImage, tags |-> {}, ingredients |-> {}])
    /\ nextRecipeId' = nextRecipeId + 1
    /\ req' = Request(user, "fixture", "create_recipe", nextRecipeId, EmptyPayload, NoParams)
    /\ resp' = NoResponse
    /\ UNCHANGED <<tags, ingredients>>

\* GET /recipe/recipes (ListModelMixin.list)
RecipeList(user, params) ==
    /\ Idle
    /\ UNCHANGED userDb
    /\ req' = Request(user, "recipes", "list", 0, EmptyPayload, params)
    /\ IF ~IsAuthenticated(user)
       THEN resp' = Response(HTTP_401_UNAUTHORIZED, <<>>)
       ELSE LET qs == RecipeViewSet_get_queryset(user)
                class == RecipeViewSet_get_serializer_class("list")
            IN resp' = Response(HTTP_200_OK,
                          [i \in DOMAIN qs |-> Serialize(class, qs[i], recipes[qs[i]])])
    /\ UNCHANGED db

\* POST /recipe/recipes (CreateModelMixin.create)
RecipeCreate(user, data) ==
    /\ Idle
    /\ UNCHANGED userDb
    /\ req' = Request(user, "recipes", "create", 0, data, NoParams)
    /\ IF ~IsAuthenticated(user)
       THEN /\ resp' = Response(HTTP_401_UNAUTHORIZED, <<>>)
            /\ UNCHANGED db
       ELSE IF ~RecipeSerializer_is_valid(data, FALSE)
       THEN /\ resp' = Response(HTTP_400_BAD_REQUEST, <<>>)
            /\ UNCHANGED db
       ELSE LET owner == RecipeViewSet_perform_create(user)
            IN IF owner \notin Users
               THEN \* the insert fails on the missing user
                    /\ resp' = Response(HTTP_500_INTERNAL_SERVER_ERROR, <<>>)
                    /\ UNCHANGED db
               ELSE /\ nextRecipeId <= MaxRecipes
                    /\ recipes' = recipes @@ (nextRecipeId :> Recipe_create(owner, data))
                    /\ nextRecipeId' = nextRecipeId + 1
                    /\ resp' = Response(HTTP_201_CREATED,
                          <<Serialize(RecipeViewSet_get_serializer_class("create"),
                                      nextRecipeId, Recipe_create(owner, data))>>)
                    /\ UNCHANGED <<tags, ingredients>>

\* GET /recipe/recipes/{id} (RetrieveModelMixin.retrieve)
RecipeRetrieve(user, id) ==
    /\ Idle
    /\ UNCHANGED userDb
    /\ req' = Request(user, "recipes", "retrieve", id, EmptyPayload, NoParams)
    /\ IF ~IsAuthenticated(user)
       THEN resp' = Response(HTTP_401_UNAUTHORIZED, <<>>)
       ELSE IF ~RecipeViewSet_get_object(user, id)
       THEN resp' = Response(HTTP_404_NOT_FOUND, <<>>)
       ELSE resp' = Response(HTTP_200_OK,
                       <<Serialize(RecipeViewSet_get_serializer_class("retrieve"),
                                   id, recipes[id])>>)
    /\ UNCHANGED db

\* PUT and PATCH /recipe/recipes/{id} (UpdateModelMixin.update, partial_update)
RecipeWrite(user, id, data, action, partial) ==
       /\ Idle
       /\ UNCHANGED userDb
       /\ req' = Request(user, "recipes", action, id, data, NoParams)
       /\ IF ~IsAuthenticated(user)
          THEN /\ resp' = Response(HTTP_401_UNAUTHORIZED, <<>>)
               /\ UNCHANGED db
          ELSE IF ~RecipeViewSet_get_object(user, id)
          THEN /\ resp' = Response(HTTP_404_NOT_FOUND, <<>>)
               /\ UNCHANGED db
          ELSE IF ~RecipeSerializer_is_valid(data, partial)
          THEN /\ resp' = Response(HTTP_400_BAD_REQUEST, <<>>)
               /\ UNCHANGED db
          ELSE LET r == RecipeSerializer_update(recipes[id], data, partial)
               IN /\ recipes' = [recipes EXCEPT ![id] = r]
                  /\ resp' = Response(HTTP_200_OK,
                        <<Serialize(RecipeViewSet_get_serializer_class(action), id, r)>>)
                  /\ UNCHANGED <<tags, ingredients, nextRecipeId>>

\* PUT handled as a partial update.
RecipeUpdate_partial(user, id, data) == RecipeWrite(user, id, data, "update", TRUE)
\* UpdateModelMixin.update: partial = False
RecipeUpdate(user, id, data) == RecipeWrite(user, id, data, "update", FALSE)

\* PATCH handled as a full update.
RecipePartialUpdate_full(user, id, data) ==
    RecipeWrite(user, id, data, "partial_update", FALSE)
\* UpdateModelMixin.partial_update: partial = True
RecipePartialUpdate(user, id, data) ==
    RecipeWrite(user, id, data, "partial_update", TRUE)

\* destroy that deletes the tags and ingredients of the recipe with it.
RecipeDestroy_cascade(user, id) ==
    /\ Idle
    /\ UNCHANGED userDb
    /\ req' = Request(user, "recipes", "destroy", id, EmptyPayload, NoParams)
    /\ IF ~IsAuthenticated(user)
       THEN /\ resp' = Response(HTTP_401_UNAUTHORIZED, <<>>)
            /\ UNCHANGED db
       ELSE IF ~RecipeViewSet_get_object(user, id)
       THEN /\ resp' = Response(HTTP_404_NOT_FOUND, <<>>)
            /\ UNCHANGED db
       ELSE LET keptTags == SortedSeq(DOMAIN tags \ recipes[id].tags)
                keptIngredients == SortedSeq(DOMAIN ingredients \ recipes[id].ingredients)
            IN /\ recipes' = [i \in DOMAIN recipes \ {id} |-> recipes[i]]
               /\ tags' = [k \in DOMAIN keptTags |-> tags[keptTags[k]]]
               /\ ingredients' = [k \in DOMAIN keptIngredients |->
                                     ingredients[keptIngredients[k]]]
               /\ resp' = Response(HTTP_204_NO_CONTENT, <<>>)
               /\ UNCHANGED nextRecipeId

\* DELETE /recipe/recipes/{id} (DestroyModelMixin.destroy)
RecipeDestroy(user, id) ==
    /\ Idle
    /\ UNCHANGED userDb
    /\ req' = Request(user, "recipes", "destroy", id, EmptyPayload, NoParams)
    /\ IF ~IsAuthenticated(user)
       THEN /\ resp' = Response(HTTP_401_UNAUTHORIZED, <<>>)
            /\ UNCHANGED db
       ELSE IF ~RecipeViewSet_get_object(user, id)
       THEN /\ resp' = Response(HTTP_404_NOT_FOUND, <<>>)
            /\ UNCHANGED db
       ELSE /\ recipes' = [i \in DOMAIN recipes \ {id} |-> recipes[i]]
            /\ resp' = Response(HTTP_204_NO_CONTENT, <<>>)
            /\ UNCHANGED <<tags, ingredients, nextRecipeId>>

\* POST /recipe/recipes/{id}/upload-image: RecipeViewSet has no such action,
\* so the router has no route for the path.
Images == {"image.jpg", "notimage"}
RecipeUploadImage(user, id, image) ==
    /\ Idle
    /\ UNCHANGED userDb
    /\ "upload_image" \notin Actions("recipes")
    /\ req' = Request(user, "recipes", "upload_image", id,
                      [EmptyPayload EXCEPT !.image = image], NoParams)
    /\ resp' = Response(HTTP_404_NOT_FOUND, <<>>)
    /\ UNCHANGED db

\* ------------------------------------------------------------------ user app
\* The addresses and passwords of the user tests; "" is a field left out or
\* left blank.
Emails == {"test@example.com", "test@ExAmPle.CoM", "testemail@example.com"}
NoEmail == ""
Passwords == {"testpass", "wrongpass", "newpass", "pass"}
NoPassword == ""
MinPasswordLength == 5

\* BaseUserManager.normalize_email: the domain part in lower case.
normalize_email(email) ==
    IF email = "test@ExAmPle.CoM" THEN "test@example.com" ELSE email

\* set_password / check_password: the stored value is a hash of the password.
make_password(password) == <<"hash", password>>
check_password(password, encoded) == encoded = make_password(password)

StoredEmails == {users[i].email : i \in DOMAIN users}

UserPayload(present, email, password, name) ==
    [present |-> present, email |-> email, password |-> password, name |-> name]

\* UserManager.create_user: the address is required and stored normalized,
\* the password stored hashed.
UserManager_create_user(email, password, name) ==
    Append(users, [email |-> normalize_email(email),
                   password |-> make_password(password), name |-> name])

\* create_user(**params) of the tests: get_user_model().objects.create_user.
\* No address raises ValueError; an address already stored fails on the
\* unique column.
create_user(email, password) ==
    /\ Idle
    /\ email # NoEmail
    /\ normalize_email(email) \notin StoredEmails
    /\ users' = UserManager_create_user(email, password, "")
    /\ req' = Request(Anon, "fixture", "create_user", Len(users) + 1,
                      UserPayload({"email", "password"}, email, password, ""),
                      NoParams)
    /\ resp' = NoResponse
    /\ UNCHANGED <<db, tokens>>

\* UserSerializer.is_valid without the minimum length of the password.
UserSerializer_is_valid_anylength(data) ==
    /\ data.email # NoEmail
    /\ data.email \notin StoredEmails
    /\ data.password # NoPassword

\* UserSerializer.is_valid on a registration: the address is required and
\* not the address of a stored user, the password has the minimum length.
UserSerializer_is_valid(data) ==
    /\ data.email # NoEmail
    /\ data.email \notin StoredEmails
    /\ Len(data.password) >= MinPasswordLength

\* UserSerializer: the fields email and name; the password is write-only.
UserSerializer(u) == [email |-> u.email, name |-> u.name]

\* POST /user/create (CreateUserView).  An address that differs from a stored
\* one only in the case of its domain passes the serializer's lookup and
\* meets the stored address after normalization: the request fails, as a
\* validation error or on the unique column.
CreateUser(data) ==
    /\ Idle
    /\ req' = Request(Anon, "user", "create", 0, data, NoParams)
    /\ IF ~UserSerializer_is_valid(data)
       THEN /\ resp' = Response(HTTP_400_BAD_REQUEST, <<>>)
            /\ UNCHANGED users
       ELSE IF normalize_email(data.email) \in StoredEmails
       THEN /\ \E status \in {HTTP_400_BAD_REQUEST, HTTP_500_INTERNAL_SERVER_ERROR} :
                  resp' = Response(status, <<>>)
            /\ UNCHANGED users
       ELSE LET rows == UserManager_create_user(data.email, data.password, data.name)
            IN /\ users' = rows
               /\ resp' = Response(HTTP_201_CREATED, <<UserSerializer(rows[Len(rows)])>>)
    /\ UNCHANGED <<db, tokens>>

\* authenticate() that does not look at the password.
authenticate_anypassword(email, password) ==
    {i \in DOMAIN users : users[i].email = email}

\* django.contrib.auth.authenticate(username=email, password=password): the
\* stored users with that address whose stored hash is the password's.
authenticate(email, password) ==
    {i \in DOMAIN users :
        users[i].email = email /\ check_password(password, users[i].password)}

\* AuthTokenSerializer.is_valid: both fields given and not blank, and the
\* credentials authenticate a user.
AuthTokenSerializer_is_valid(data) ==
    /\ data.email # NoEmail
    /\ data.password # NoPassword
    /\ authenticate(data.email, data.password) # {}

\* The key of the token of a user.
Token_key(id) == <<"token", id>>

\* POST /user/token (CreateTokenView): Token.objects.get_or_create(user=user)
CreateToken(data) ==
    /\ Idle
    /\ req' = Request(Anon, "user", "token", 0, data, NoParams)
    /\ IF ~AuthTokenSerializer_is_valid(data)
       THEN /\ resp' = Response(HTTP_400_BAD_REQUEST, <<>>)
            /\ UNCHANGED tokens
       ELSE \E id \in authenticate(data.email, data.password) :
               /\ tokens' = tokens \cup {id}
               /\ resp' = Response(HTTP_200_OK, <<[token |-> Token_key(id)]>>)
    /\ UNCHANGED <<db, users>>

\* The user behind a request to /user/me, named by the address: a stored
\* user (force_authenticate) or none.
UserIsAuthenticated(caller) == caller \in StoredEmails
UserId(caller) == CHOOSE i \in DOMAIN users : users[i].email = caller

\* GET /user/me (ManageUserView.retrieve)
ManageUserRetrieve(caller) ==
    /\ Idle
    /\ req' = Request(caller, "user", "me_retrieve", 0,
                      UserPayload({}, NoEmail, NoPassword, ""), NoParams)
    /\ IF ~UserIsAuthenticated(caller)
       THEN resp' = Response(HTTP_401_UNAUTHORIZED, <<>>)
       ELSE resp' = Response(HTTP_200_OK, <<UserSerializer(users[UserId(caller)])>>)
    /\ UNCHANGED <<db, userDb>>

\* UserSerializer.update: the name is set, a given password is hashed anew.
UserSerializer_update(u, data) ==
    [u EXCEPT !.name = IF "name" \in data.present THEN data.name ELSE @,
              !.password = IF "password" \in data.present
                           THEN make_password(data.password) ELSE @]

\* PATCH /user/me (ManageUserView.partial_update)
ManageUserUpdate(caller, data) ==
    /\ Idle
    /\ req' = Request(caller, "user", "me_partial_update", 0, data, NoParams)
    /\ IF ~UserIsAuthenticated(caller)
       THEN /\ resp' = Response(HTTP_401_UNAUTHORIZED, <<>>)
            /\ UNCHANGED users
       ELSE IF "password" \in data.present /\ Len(data.password) < MinPasswordLength
       THEN /\ resp' = Response(HTTP_400_BAD_REQUEST, <<>>)
            /\ UNCHANGED users
       ELSE LET u == UserSerializer_update(users[UserId(caller)], data)
            IN /\ users' = [users EXCEPT ![UserId(caller)] = u]
               /\ resp' = Response(HTTP_200_OK, <<UserSerializer(u)>>)
    /\ UNCHANGED <<db, tokens>>

\* ------------------------------------------------------------ specification
Callers == Users \cup {Anon}

\* The inputs of a request.  One that is turned away before its payload is
\* read (no token, or no such recipe for the user) carries one payload.
ProbePayloads ==
    {Payload(ScalarFields, [given |-> FALSE, v |-> {}], [given |-> FALSE, v |-> {}])}
ListFlags(user) == IF IsAuthenticated(user) THEN BOOLEAN ELSE {TRUE}
CreateNames(user) == IF IsAuthenticated(user) THEN PayloadNames ELSE {"a"}
ListParams(user) == IF IsAuthenticated(user) THEN RecipeListParams ELSE {NoParams}
PatchPayloads(user, id) ==
    IF IsAuthenticated(user) /\ RecipeViewSet_get_object(user, id)
    THEN PartialPayloads(DOMAIN tags, DOMAIN ingredients) \cup {UnknownIdPayload}
    ELSE ProbePayloads
PutPayloads(user, id) ==
    IF IsAuthenticated(user) /\ RecipeViewSet_get_object(user, id)
    THEN FullPayloads(DOMAIN tags, DOMAIN ingredients)
            \cup {UnknownIdPayload, MissingFieldPayload}
    ELSE ProbePayloads
\* The payloads of the create tests: no lists, the list of the tags, the
\* list of the ingredients.
PostPayloads(user) ==
    IF IsAuthenticated(user)
    THEN {Payload(ScalarFields, [given |-> FALSE, v |-> {}], [given |-> FALSE, v |-> {}]),
          Payload(ScalarFields, [given |-> TRUE, v |-> DOMAIN tags],
                  [given |-> FALSE, v |-> {}]),
          Payload(ScalarFields, [given |-> FALSE, v |-> {}],
                  [given |-> TRUE, v |-> DOMAIN ingredients]),
          UnknownIdPayload, MissingFieldPayload}
    ELSE ProbePayloads

Next ==
    \/ Idle /\ \E k \in AttrKinds, u \in Callers : \E a \in ListFlags(u) :
                  AttrList(k, u, a)
    \/ Idle /\ \E k \in AttrKinds, u \in Callers : \E n \in CreateNames(u) :
                  AttrCreate(k, u, n)
    \/ Idle /\ \E k \in AttrKinds, u \in Callers, id \in 1..MaxAttributes,
                     a \in DetailActions : AttrDetail(k, u, id, a)
    \/ Idle /\ \E u \in Users : create_recipe(u)
    \/ Idle /\ \E u \in Callers : \E p \in ListParams(u) : RecipeList(u, p)
    \/ Idle /\ \E u \in Callers : \E d \in PostPayloads(u) : RecipeCreate(u, d)
    \/ Idle /\ \E u \in Callers, id \in RecipeIds : RecipeRetrieve(u, id)
    \/ Idle /\ \E u \in Callers, id \in RecipeIds : \E d \in PutPayloads(u, id) :
                  RecipeUpdate(u, id, d)
    \/ Idle /\ \E u \in Callers, id \in RecipeIds : \E d \in PatchPayloads(u, id) :
                  RecipePartialUpdate(u, id, d)
    \/ Idle /\ \E u \in Callers, id \in RecipeIds : RecipeDestroy(u, id)
    \/ Idle /\ \E u \in Callers, id \in RecipeIds, i \in Images :
                  RecipeUploadImage(u, id, i)
    \/ Done

Spec == Init /\ [][Next]_vars

\* The requests of the user tests: registrations with and without a name,
\* token requests with any address and password, profile updates that carry
\* a name, a password or both.
FixturePasswords == {"testpass", "wrongpass"}
CreateUserPayloads ==
    {UserPayload({"email", "password"} \cup (IF n = "" THEN {} ELSE {"name"}), e, p, n) :
        e \in Emails \cup {NoEmail}, p \in {"testpass", "pass", NoPassword},
        n \in {"", "testname"}}
TokenPayloads ==
    {UserPayload({"email", "password"}, e, p, "") :
        e \in Emails \cup {NoEmail}, p \in Passwords \cup {NoPassword}}
UserCallers == {normalize_email(e) : e \in Emails} \cup {Anon}
ProfilePayloads ==
    {UserPayload(S, NoEmail, IF "password" \in S THEN p ELSE NoPassword,
                 IF "name" \in S THEN "newname" ELSE "") :
        S \in SUBSET {"name", "password"} \ {{}}, p \in {"newpass", "pass"}}

NextUser ==
    \/ Idle /\ \E e \in Emails, p \in FixturePasswords : create_user(e, p)
    \/ Idle /\ \E d \in CreateUserPayloads : CreateUser(d)
    \/ Idle /\ \E d \in TokenPayloads : CreateToken(d)
    \/ Idle /\ \E c \in UserCallers : ManageUserRetrieve(c)
    \/ Idle /\ \E c \in UserCallers : \E d \in ProfilePayloads : ManageUserUpdate(c, d)
    \/ Done

SpecUser == Init /\ [][NextUser]_vars

\* Stored data for the list requests: any rows of core_tag and core_ingredient
\* (MaxStored rows together) and any recipes left of MaxStored inserts, each
\* as Recipe.objects.create leaves it.
AttributeRows == [user : Users, name : Names]
StoredAttributes == UNION {[1..n -> AttributeRows] : n \in 0..MaxStored}
StoredRecipe(user) ==
    [user |-> user, title |-> DefaultTitle, time_minutes |-> DefaultTime,
     price |-> DefaultPrice, image |-> NoImage, tags |-> {}, ingredients |-> {}]
StoredRecipes ==
    UNION {[ids -> {StoredRecipe(u) : u \in Users}] : ids \in SUBSET (1..MaxStored)}

InitStored ==
    /\ tags \in StoredAttributes
    /\ ingredients \in StoredAttributes
    /\ Len(tags) + Len(ingredients) <= MaxStored
    /\ recipes \in StoredRecipes
    /\ nextRecipeId = MaxStored + 1
    /\ users = <<>>
    /\ tokens = {}
    /\ req = NoRequest
    /\ resp = NoResponse

NextList ==
    \/ Idle /\ \E k \in AttrKinds, u \in Callers : \E a \in ListFlags(u) :
                  AttrList(k, u, a)
    \/ Idle /\ \E u \in Callers : \E p \in ListParams(u) : RecipeList(u, p)
    \/ Done

SpecList == InitStored /\ [][NextList]_vars

\* ================================================================== claims
ApiEndpoints == AttrKinds \cup {"recipes"}
ResponseIds == {resp.data[i].id : i \in DOMAIN resp.data}
\* The recipe a detail request names is a recipe of another user.
OthersRecipe(r) ==
    /\ r.endpoint = "recipes"
    /\ r.action \in {"retrieve", "update", "partial_update", "destroy"}
    /\ r.user \in Users
    /\ r.id \in DOMAIN recipes
    /\ recipes[r.id].user # r.user
\* The recipe a request names is the requesting user's own.
OwnRecipe(r) ==
    /\ r.endpoint = "recipes"
    /\ r.user \in Users
    /\ r.id \in DOMAIN recipes
    /\ recipes[r.id].user = r.user

\* C1: no tag, ingredient or recipe of another user appears in a list
\* response or in a recipe detail response (the recipe itself and the tag
\* and ingredient objects nested in it) returned to a user.
C1_Isolation ==
    (req.user \in Users /\ resp.status = HTTP_200_OK) =>
       /\ (req.endpoint \in AttrKinds /\ req.action = "list") =>
             \A i \in ResponseIds : Table(req.endpoint)[i].user = req.user
       /\ (req.endpoint = "recipes" /\ req.action = "list") =>
             \A i \in ResponseIds : recipes[i].user = req.user
       /\ (req.endpoint = "recipes" /\ req.action = "retrieve") =>
             /\ recipes[resp.data[1].id].user = req.user
             /\ \A t \in resp.data[1].tags : tags[t.id].user = req.user
             /\ \A g \in resp.data[1].ingredients : ingredients[g.id].user = req.user

\* C2: GET, PATCH, PUT or DELETE on a recipe of another user answers 404
\* with no data and leaves the recipes (fields and associations) as they were.
C2_OthersRecipeNotFound ==
    [][OthersRecipe(req') =>
          /\ resp' = Response(HTTP_404_NOT_FOUND, <<>>)
          /\ recipes' = recipes]_vars
C2_Witness ==
    /\ OthersRecipe(req)
    /\ req.action = "partial_update"
    /\ resp.status = HTTP_404_NOT_FOUND
    /\ recipes[req.id].tags = {1}

\* C3: a request without a valid token to any tag, ingredient or recipe
\* endpoint (list and create; for recipes also detail, update, delete and
\* upload-image) answers 401 with no data and leaves the tables as they were.
C3_Unauthenticated ==
    [][(/\ req'.user = Anon /\ req'.endpoint \in ApiEndpoints
        /\ req'.endpoint \in AttrKinds => req'.action \in AttributeActions) =>
          /\ resp' = Response(HTTP_401_UNAUTHORIZED, <<>>)
          /\ db' = db]_vars

\* C4: a POST to /recipe/recipes by a user with a valid payload answers 201
\* and adds exactly one recipe, owned by the user, with the payload's scalar
\* fields and exactly the payload's tag and ingredient ids.
C4_CreateRecipe ==
    [][(/\ req'.endpoint = "recipes" /\ req'.action = "create"
        /\ req'.user \in Users
        /\ RecipeSerializer_is_valid(req'.data, FALSE)) =>
          /\ resp'.status = HTTP_201_CREATED
          /\ \E id \in DOMAIN recipes' \ DOMAIN recipes :
                /\ DOMAIN recipes' = DOMAIN recipes \cup {id}
                /\ \A i \in DOMAIN recipes : recipes'[i] = recipes[i]
                /\ recipes'[id].user = req'.user
                /\ recipes'[id].title = req'.data.title
                /\ recipes'[id].time_minutes = req'.data.time_minutes
                /\ recipes'[id].price = req'.data.price
                /\ recipes'[id].tags = req'.data.tags
                /\ recipes'[id].ingredients = req'.data.ingredients]_vars

\* C5: a POST to /recipe/tags or /recipe/ingredients by a user with a
\* non-empty name answers 201 and adds one row with that name, owned by the
\* user; with an empty name it answers 400 and adds nothing.
C5_CreateAttribute ==
    [][(req'.endpoint \in AttrKinds /\ req'.action = "create" /\ req'.user \in Users) =>
          LET old == Table(req'.endpoint)
              new == IF req'.endpoint = "tags" THEN tags' ELSE ingredients'
              other == IF req'.endpoint = "tags" THEN ingredients' = ingredients
                       ELSE tags' = tags
          IN IF req'.data.name # ""
             THEN /\ resp'.status = HTTP_201_CREATED
                  /\ new = Append(old, [user |-> req'.user, name |-> req'.data.name])
                  /\ other
                  /\ UNCHANGED <<recipes, nextRecipeId>>
             ELSE /\ resp'.status = HTTP_400_BAD_REQUEST
                  /\ db' = db]_vars
C5_Witness ==
    /\ req.endpoint = "ingredients" /\ req.action = "create" /\ req.user = "u2"
    /\ resp.status = HTTP_201_CREATED
    /\ ingredients = <<[user |-> "u2", name |-> "b"]>>
    /\ resp.data = <<[id |-> 1, name |-> "b"]>>

\* C6: a tag or ingredient list with assigned_only=1 is exactly the user's
\* rows that a recipe of the user references, each once.
C6_AssignedOnly ==
    (/\ req.endpoint \in AttrKinds /\ req.action = "list"
     /\ req.user \in Users /\ req.params.assigned_only) =>
       /\ resp.status = HTTP_200_OK
       /\ ResponseIds =
             {t \in DOMAIN Table(req.endpoint) :
                 /\ Table(req.endpoint)[t].user = req.user
                 /\ \E r \in DOMAIN recipes :
                       recipes[r].user = req.user /\ t \in recipes[r][req.endpoint]}
       /\ Len(resp.data) = Cardinality(ResponseIds)

\* C7: a recipe list with a tags (ingredients) filter is exactly the user's
\* recipes that reference at least one of the listed ids.
C7_FilterRecipes ==
    (/\ req.endpoint = "recipes" /\ req.action = "list"
     /\ req.user \in Users /\ req.params.filter # {}) =>
       /\ resp.status = HTTP_200_OK
       /\ ResponseIds =
             {r \in DOMAIN recipes :
                 /\ recipes[r].user = req.user
                 /\ \A f \in req.params.filter : recipes[r][f] \cap req.params[f] # {}}

\* C8: a PATCH on the user's own recipe keeps every field the payload does
\* not carry; with a valid payload it answers 200, each carried field takes
\* the payload's value, and a carried tags list becomes the whole tag set.
C8_PartialUpdate ==
    [][(OwnRecipe(req') /\ req'.action = "partial_update") =>
          /\ DOMAIN recipes' = DOMAIN recipes
          /\ \A i \in DOMAIN recipes \ {req'.id} : recipes'[i] = recipes[i]
          /\ recipes'[req'.id].user = recipes[req'.id].user
          /\ recipes'[req'.id].image = recipes[req'.id].image
          /\ \A f \in RecipeFields \ req'.data.present :
                recipes'[req'.id][f] = recipes[req'.id][f]
          /\ RecipeSerializer_is_valid(req'.data, TRUE) =>
                /\ resp'.status = HTTP_200_OK
                /\ \A f \in req'.data.present : recipes'[req'.id][f] = req'.data[f]
          /\ UNCHANGED <<tags, ingredients>>]_vars
C8_Witness ==
    /\ OwnRecipe(req) /\ req.action = "partial_update"
    /\ resp.status = HTTP_200_OK
    /\ req.data.present = {"tags"}
    /\ Len(tags) = 1
    /\ req.data.tags = {}
    /\ recipes[req.id].tags = {}
    /\ recipes[req.id].title = PayloadTitle
    /\ recipes[req.id].price = PayloadPrice

\* C9: a PUT on the user's own recipe with title, time_minutes and price but
\* no tags field sets the three fields and leaves the recipe without tags.
C9_FullUpdate ==
    [][(/\ OwnRecipe(req') /\ req'.action = "update"
        /\ ScalarFields \subseteq req'.data.present
        /\ "tags" \notin req'.data.present
        /\ req'.data.ingredients \subseteq DOMAIN ingredients) =>
          /\ resp'.status = HTTP_200_OK
          /\ recipes'[req'.id].title = req'.data.title
          /\ recipes'[req'.id].time_minutes = req'.data.time_minutes
          /\ recipes'[req'.id].price = req'.data.price
          /\ recipes'[req'.id].tags = {}]_vars
C9_Witness ==
    /\ OwnRecipe(req) /\ req.action = "update"
    /\ req.data.present = ScalarFields
    /\ resp.status = HTTP_200_OK
    /\ Len(tags) = 1
    /\ recipes[req.id].tags = {}
    /\ recipes[req.id].time_minutes = PayloadTime

\* C10: an upload-image POST on the user's own recipe answers 200 with the
\* image and stores a file path for a valid image; it answers 400 and leaves
\* the image unset for a payload that is no image.
C10_UploadImage ==
    (OwnRecipe(req) /\ req.action = "upload_image") =>
       IF req.data.image = "image.jpg"
       THEN /\ resp.status = HTTP_200_OK
            /\ recipes[req.id].image # NoImage
            /\ Len(resp.data) = 1
       ELSE /\ resp.status = HTTP_400_BAD_REQUEST
            /\ recipes[req.id].image = NoImage

\* A registration the claim lists as rejected: no address, the address of a
\* stored user, or a password shorter than the minimum length.
RejectedRegistration(r) ==
    /\ r.endpoint = "user" /\ r.action = "create"
    /\ \/ r.data.email = NoEmail
       \/ r.data.email \in StoredEmails
       \/ Len(r.data.password) < MinPasswordLength
UniqueEmails == \A i, j \in DOMAIN users : users[i].email = users[j].email => i = j

ValidCredentials(r) ==
    \E i \in DOMAIN users :
       /\ users[i].email = r.data.email
       /\ check_password(r.data.password, users[i].password)

\* C12: a POST to /user/token answers 200 only for the email of a stored
\* user with that user's current password, and then carries that user's
\* token; with a wrong password, an unknown email or an empty field it
\* answers 400 with no token and issues none.
C12_TokenOnlyForCredentials ==
    [][(req'.endpoint = "user" /\ req'.action = "token") =>
          /\ resp'.status = HTTP_200_OK =>
                /\ ValidCredentials(req')
                /\ \E i \in DOMAIN users :
                      /\ users[i].email = req'.data.email
                      /\ resp'.data = <<[token |-> Token_key(i)]>>
          /\ (\/ ~ValidCredentials(req')
              \/ req'.data.email = NoEmail
              \/ req'.data.password = NoPassword) =>
                /\ resp' = Response(HTTP_400_BAD_REQUEST, <<>>)
                /\ tokens' = tokens]_vars
C12_Witness ==
    /\ req.endpoint = "user" /\ req.action = "token"
    /\ req.data.email = "test@example.com"
    /\ req.data.password = "testpass"
    /\ resp = Response(HTTP_400_BAD_REQUEST, <<>>)
    /\ \E i \in DOMAIN users :
          /\ users[i].email = "test@example.com"
          /\ users[i].password = make_password("newpass")
          /\ i \in tokens

\* C13: every tag and every ingredient a recipe references is owned by the
\* owner of the recipe.
C13_ReferencesOwned ==
    \A r \in DOMAIN recipes :
       /\ \A t \in recipes[r].tags : tags[t].user = recipes[r].user
       /\ \A g \in recipes[r].ingredients : ingredients[g].user = recipes[r].user

\* C14: a tag or ingredient list answered to a user holds rows of that user,
\* each once, in ascending order of name; a recipe list holds recipes of that
\* user in ascending order of id; a list request without a filter holds all
\* of them.
C14_ListOrder ==
    (req.endpoint \in ApiEndpoints /\ req.action = "list" /\ req.user \in Users) =>
       /\ resp.status = HTTP_200_OK
       /\ IF req.endpoint \in AttrKinds
          THEN LET objs == Table(req.endpoint)
               IN /\ \A i \in DOMAIN resp.data :
                        /\ resp.data[i].id \in DOMAIN objs
                        /\ objs[resp.data[i].id].user = req.user
                        /\ resp.data[i].name = objs[resp.data[i].id].name
                  /\ \A i, j \in DOMAIN resp.data :
                        i < j => /\ resp.data[i].id # resp.data[j].id
                                 /\ NameRank(resp.data[i].name)
                                       <= NameRank(resp.data[j].name)
                  /\ ~req.params.assigned_only =>
                        ResponseIds = {t \in DOMAIN objs : objs[t].user = req.user}
          ELSE /\ \A i \in DOMAIN resp.data :
                     /\ resp.data[i].id \in DOMAIN recipes
                     /\ recipes[resp.data[i].id].user = req.user
               /\ \A i, j \in DOMAIN resp.data :
                     i < j => resp.data[i].id < resp.data[j].id
               /\ req.params.filter = {} =>
                     ResponseIds = {r \in DOMAIN recipes : recipes[r].user = req.user}
C14_Witness ==
    /\ req.endpoint = "tags" /\ req.action = "list" /\ req.user = "u1"
    /\ tags = <<[user |-> "u1", name |-> "b"], [user |-> "u1", name |-> "a"]>>
    /\ resp = Response(HTTP_200_OK, <<[id |-> 2, name |-> "a"], [id |-> 1, name |-> "b"]>>)

\* Every row of the table before a step is the same row after it.
RowsKept(old, new) ==
    /\ Len(new) >= Len(old)
    /\ \A i \in DOMAIN old : new[i] = old[i]

\* C15: no request removes a tag or an ingredient or changes its name or
\* owner; a request to a tag or ingredient endpoint other than list and
\* create changes nothing.
C15_AttributesOnlyGrow ==
    [][/\ RowsKept(tags, tags')
       /\ RowsKept(ingredients, ingredients')
       /\ (req'.endpoint \in AttrKinds /\ req'.action \notin {"list", "create"}) =>
             db' = db]_vars
C15_Witness ==
    /\ req.endpoint = "tags" /\ req.action = "destroy"
    /\ req.user = "u1" /\ req.id = 1
    /\ resp.status = HTTP_404_NOT_FOUND
    /\ tags = <<[user |-> "u1", name |-> "a"]>>
    /\ \E r \in DOMAIN recipes : recipes[r].tags = {1}

====
